---- MODULE Spec2Model ----
(***************************************************************************)
(* Retrieval & index management of the Kenyan RAG agent:                   *)
(*   src/src/vector_store.py     VectorStore (FAISS store, backups)        *)
(*   src/src/storage_manager.py  StorageManager (backup / restore files)   *)
(*   src/src/cache.py            Cache (diskcache with TTL)                *)
(*   src/src/agent.py            RAGAgent.get_response (fallback)          *)
(*   src/src/web_search.py       KenyanWebSearch (regional filter)         *)
(*   src/app/streamlit_app.py    session threads sharing one RAGAgent      *)
(*                                                                         *)
(* The persist directory is modelled file by file.  VectorStore tests and  *)
(* copies the paths persist_dir/faiss_index and persist_dir/store.pkl      *)
(* (vector_store.py:19-20), while the library calls it makes,              *)
(* FAISS.save_local(folder) and FAISS.load_local(folder, embeddings),      *)
(* write and read folder/index.faiss and folder/index.pkl (the library's   *)
(* default index_name is "index").  Both pairs of files are part of the    *)
(* state, so that the model says what the calls do, not what the names of  *)
(* the attributes suggest.                                                 *)
(*                                                                         *)
(* A file is a set with at most one element: {} is "no such file", {c} is  *)
(* a file with content c.                                                  *)
(***************************************************************************)
EXTENDS Integers, FiniteSets, Sequences, TLC

\* ---------------------------------------------------------------- bounds
\* Largest number of document entries the store is let grow to.
MaxDocs == 2
\* The wall clock runs over 0..MaxClock seconds.
MaxClock == 1
\* Largest number of chunks one add_documents call produces.
MaxChunks == 2
\* Largest number of vectors the index is let grow to where a store can be
\* loaded from files of two different persists.
MaxVectors == 3

\* ------------------------------------------------------ program constants
\* similarity_search(query, k=4)
DefaultK == 4
\* Cache.ttl = 3600
DefaultTtl == 3600

Timestamps == 0..MaxClock
Keys == {"q:kenya"}
Values == {"answer"}

\* Content of a pre-existing faiss_index / store.pkl file.  The program only
\* ever copies these two files, it never reads or writes their content.
LegacyIndex == "faiss_index bytes"
LegacyStore == "store.pkl bytes"

\* A backup directory that does not exist.
NoBackup == [exists |-> FALSE, faiss_index |-> {}, store_pkl |-> {}]

VARIABLES
  vector_store,  \* VectorStore.vector_store, the FAISS object in memory
  disk,          \* the files of persist_dir
  backups,       \* persist_dir/backups/backup_<timestamp>, by timestamp
  cache,         \* the diskcache under data/cache: key -> set of [value, expire]
  now,           \* wall clock, in seconds
  last,          \* what the last call was and what it returned to its caller
  mark,          \* history: the state a create_backup call found, while the calls
                 \* after it are one successful add_documents at most; and the
                 \* arguments of a Cache.set, while its entry is not set again;
                 \* and the FAISS object the retriever of the chain holds
  pc             \* where each thread is inside a call on the shared VectorStore

vars == <<vector_store, disk, backups, cache, now, last, mark, pc>>

\* The threads that share one RAGAgent: the script threads of two Streamlit
\* sessions (get_agent is a cache_resource), or the event loop and a worker
\* thread of asyncio.to_thread.
Threads == {"t1", "t2"}

\* A thread that is in no call on the store.  n is the number of chunks of
\* the add_documents it is in, pre the store in memory as the call found it.
Idle ==
  [at |-> "idle", n |-> 0, pre |-> [index |-> 0, dummy |-> 0, docs |-> 0], solo |-> TRUE]

\* last: op is the call, result what its caller gets; n the number of chunks
\* of an add_documents; absent whether a delete_document named an id that is
\* in no entry of the store; ts the timestamp a restore named; docs and
\* fallback what get_response found and whether it ran the web search;
\* readable whether the library could read the files a load found.
Blank ==
  [op |-> "", result |-> "", n |-> 0, absent |-> FALSE, ts |-> 0,
   docs |-> 0, fallback |-> FALSE, readable |-> TRUE]

\* mark.phase: 0 nothing marked, 1 a snapshot was just made of mark.disk
\* (with mark.vs in memory) under timestamp mark.ts, 2 and one add_documents
\* has committed since.
NoMark ==
  [phase |-> 0, ts |-> 0,
   disk |-> [faiss_index |-> {}, store_pkl |-> {}, index_faiss |-> {}, index_pkl |-> {}],
   vs |-> [index |-> 0, dummy |-> 0, docs |-> 0]]

\* ------------------------------------------------------------ the store
\* A FAISS store is its index (index: the number of vectors, index.ntotal)
\* and its docstore with index_to_docstore_id (dummy: the number of
\* "initialization document" entries, docs: the number of entries made from
\* chunks).  Entries are told apart by uuid4 ids only, so a store is the
\* number of entries of each kind it holds.
Min(a, b) == IF a <= b THEN a ELSE b

Entries(vs) == vs.dummy + vs.docs

\* FAISS.from_texts(["initialization document"], ...): one entry.
_create_new_store ==
  [index |-> 1, dummy |-> 1, docs |-> 0]

\* What FAISS.load_local(persist_dir, embeddings) reads: index.faiss gives
\* the index, index.pkl the docstore and index_to_docstore_id.
LoadLocal(d) ==
  LET ix == CHOOSE x \in d.index_faiss : TRUE
      ds == CHOOSE x \in d.index_pkl : TRUE
  IN [index |-> ix, dummy |-> ds.dummy, docs |-> ds.docs]

\* Whether load_local can succeed on d.  readable is the library's verdict on
\* the files it finds (unpickling may be refused or fail).
CanLoad(d, readable) ==
  d.index_faiss # {} /\ d.index_pkl # {} /\ readable

\* Whether _load_or_create_store creates a new store on d: it loads only
\* when faiss_index and store.pkl exist and load_local does not raise.
LoadCreates(d, readable) ==
  ~(d.faiss_index # {} /\ d.store_pkl # {} /\ CanLoad(d, readable))

_load_or_create_store(d, readable) ==
  IF LoadCreates(d, readable) THEN _create_new_store ELSE LoadLocal(d)

\* FAISS.save_local(persist_dir): index.faiss first, then index.pkl.
\*   fault "save_index": the first write raises, nothing is written;
\*   fault "save_pkl":   index.faiss is written, the second write raises.
save_local(vs, d, fault) ==
  IF fault = "save_index" THEN d
  ELSE IF fault = "save_pkl" THEN [d EXCEPT !.index_faiss = {vs.index}]
  ELSE [d EXCEPT !.index_faiss = {vs.index},
                 !.index_pkl = {[dummy |-> vs.dummy, docs |-> vs.docs]}]

SaveRaises(fault) == fault \in {"save_index", "save_pkl"}

\* FAISS.add_texts: n new vectors and n new entries under fresh uuid4 ids.
add_texts(vs, n) ==
  [vs EXCEPT !.index = @ + n, !.docs = @ + n]

\* A document_id argument is a str or a list (kind) and names: "empty" for
\* "" and [], else the entry the id is the id of: "initialization",
\* "document", or "absent" for the id of no entry.
Names == {"empty", "initialization", "document", "absent"}

\* Whether the store holds the entry the id names.
Present(vs, names) ==
  \/ names = "initialization" /\ vs.dummy > 0
  \/ names = "document" /\ vs.docs > 0

\* The id given is the id of no entry of the store.
IdAbsent(vs, names) == names # "empty" /\ ~Present(vs, names)

\* FAISS.delete(ids) computes set(ids): the elements of a list, but the
\* characters of a str, and no character is a uuid4.  It raises when a
\* member is missing from index_to_docstore_id and, through
\* InMemoryDocstore.delete, when set(ids) is empty.
DeleteRaises(vs, kind, names) ==
  \/ names = "empty"
  \/ kind = "str"
  \/ ~Present(vs, names)

\* FAISS.delete(ids) when it does not raise: the vector and the entry go.
faiss_delete(vs, names) ==
  IF names = "initialization"
  THEN [vs EXCEPT !.index = IF @ > 0 THEN @ - 1 ELSE 0, !.dummy = @ - 1]
  ELSE [vs EXCEPT !.index = IF @ > 0 THEN @ - 1 ELSE 0, !.docs = @ - 1]

\* ------------------------------------------------------------- backups
\* The two shutil.copy2 calls of create_backup into directory b.
\*   fault "copy_index": the first copy raises;
\*   fault "copy_store": the second copy raises; it also raises when
\*   store.pkl does not exist.
CopyIn(b, d, fault) ==
  IF fault = "copy_index" THEN [b EXCEPT !.exists = TRUE]
  ELSE IF fault = "copy_store" \/ d.store_pkl = {}
  THEN [b EXCEPT !.exists = TRUE, !.faiss_index = d.faiss_index]
  ELSE [exists |-> TRUE, faiss_index |-> d.faiss_index, store_pkl |-> d.store_pkl]

CopyInRaises(d, fault) ==
  fault \in {"copy_index", "copy_store"} \/ d.store_pkl = {}

\* VectorStore.create_backup: [backups, out], out being "none" (the early
\* return "No vector store to backup"), "created" or "raised".
\* os.makedirs(exist_ok=True) reuses the directory of the same second.
create_backup(bk, d, t, fault) ==
  IF d.faiss_index = {}
  THEN [backups |-> bk, out |-> "none"]
  ELSE [backups |-> [bk EXCEPT ![t] = CopyIn(bk[t], d, fault)],
        out |-> IF CopyInRaises(d, fault) THEN "raised" ELSE "created"]

\* The two shutil.copy2 calls of restore_backup out of directory b.  A copy
\* raises FileNotFoundError when the directory lacks the file.
CopyOut(b, d) ==
  IF b.faiss_index = {} THEN d
  ELSE IF b.store_pkl = {} THEN [d EXCEPT !.faiss_index = b.faiss_index]
  ELSE [d EXCEPT !.faiss_index = b.faiss_index, !.store_pkl = b.store_pkl]

CopyOutRaises(b) == b.faiss_index = {} \/ b.store_pkl = {}

\* ---------------------------------------------------------------- cache
\* Cache.get: diskcache returns the value of an entry that has not expired.
CacheGet(c, key, t) ==
  {e.value : e \in {x \in c[key] : x.expire > t}}

\* Cache.set: expire = now + (ttl or self.ttl); None is modelled as -1.
NoTtl == -1
CacheSet(c, key, value, ttl, t) ==
  [c EXCEPT ![key] =
     {[value |-> value,
       expire |-> t + (IF ttl = NoTtl \/ ttl = 0 THEN DefaultTtl ELSE ttl)]}]

\* self.cache.cache.clear()
CacheClear(c) == [k \in Keys |-> {}]

\* --------------------------------------------------------------- search
\* similarity_search without the except clause's [] for a failed embedding.
similarity_search_NoExcept(vs, k, embedOk) ==
  IF vs.index > Entries(vs) THEN 0
  ELSE Min(k, vs.index)

\* VectorStore.similarity_search: the number of documents it returns, the
\* entries of the k nearest vectors; [] when embedding the query raises, or
\* when a vector found has no entry in index_to_docstore_id (KeyError),
\* both caught by the except clause.
similarity_search(vs, k, embedOk) ==
  IF ~embedOk \/ vs.index > Entries(vs) THEN 0
  ELSE Min(k, vs.index)

\* VectorStore.get_stats: os.path.getsize(index_file) raises when
\* faiss_index does not exist, and the except clause returns {"error": ...}.
get_stats ==
  IF disk.faiss_index = {}
  THEN [error |-> TRUE, total_documents |-> 0, total_vectors |-> 0]
  ELSE [error |-> FALSE,
        total_documents |-> Entries(vector_store),
        total_vectors |-> vector_store.index]

\* ------------------------------------------------------------- handlers
\* The faults a call may meet: an exception raised by the chunker, by a copy of
\* create_backup, by the embedder, or by one of the two writes of save_local.
Faults ==
  {"none", "chunk", "copy_index", "copy_store", "embed", "save_index", "save_pkl"}

\* The faults and arguments the calls of Spec are run with.
AddFaults == {"none", "chunk", "embed", "save_index"}
DeleteFaults == {"none", "save_index"}
BackupFaults == {"none"}
TtlArgs == {NoTtl}

\* The state a handler leaves and what it gives its caller.
Outcome(vs, d, bk, c, result) ==
  [vector_store |-> vs, disk |-> d, backups |-> bk, cache |-> c, result |-> result]

\* VectorStore.add_documents for a document list that chunks into n chunks.
\* "ok" is a normal return, "error" the re-raised Exception.
add_documents(n, fault) ==
  LET cb == create_backup(backups, disk, now, fault)
      vs1 == add_texts(vector_store, n)
      d1 == save_local(vs1, disk, fault)
  IN IF fault = "chunk"
     THEN Outcome(vector_store, disk, backups, cache, "error")
     ELSE IF cb.out = "raised"
     THEN Outcome(vector_store, disk, cb.backups, cache, "error")
     ELSE IF n = 0
     THEN Outcome(vector_store, disk, cb.backups, cache, "ok")
     ELSE IF fault = "embed"
     THEN Outcome(vector_store, disk, cb.backups, cache, "error")
     ELSE IF SaveRaises(fault)
     THEN Outcome(vs1, d1, cb.backups, cache, "error")
     ELSE Outcome(vs1, d1, cb.backups, CacheClear(cache), "ok")

\* delete_document with the cache cleared before the deletion is tried.
delete_document_ClearsFirst(kind, names, fault) ==
  LET cb == create_backup(backups, disk, now, fault)
      vs1 == faiss_delete(vector_store, names)
      d1 == save_local(vs1, disk, fault)
  IN IF cb.out = "raised"
     THEN Outcome(vector_store, disk, cb.backups, cache, "error")
     ELSE IF DeleteRaises(vector_store, kind, names)
     THEN Outcome(vector_store, disk, cb.backups, CacheClear(cache), "error")
     ELSE IF SaveRaises(fault)
     THEN Outcome(vs1, d1, cb.backups, CacheClear(cache), "error")
     ELSE Outcome(vs1, d1, cb.backups, CacheClear(cache), "ok")

\* VectorStore.delete_document(document_id).
delete_document(kind, names, fault) ==
  LET cb == create_backup(backups, disk, now, fault)
      vs1 == faiss_delete(vector_store, names)
      d1 == save_local(vs1, disk, fault)
  IN IF cb.out = "raised"
     THEN Outcome(vector_store, disk, cb.backups, cache, "error")
     ELSE IF DeleteRaises(vector_store, kind, names)
     THEN Outcome(vector_store, disk, cb.backups, cache, "error")
     ELSE IF SaveRaises(fault)
     THEN Outcome(vs1, d1, cb.backups, cache, "error")
     ELSE Outcome(vs1, d1, cb.backups, CacheClear(cache), "ok")

\* restore_backup without the test that the backup directory exists.
restore_backup_NoExistsTest(ts, readable) ==
  LET b == backups[ts]
      d1 == CopyOut(b, disk)
  IN IF CopyOutRaises(b)
     THEN Outcome(vector_store, d1, backups, cache, "raised")
     ELSE Outcome(_load_or_create_store(d1, readable), d1, backups, cache, "restored")

\* VectorStore.restore_backup(backup_timestamp): "not_found" and "restored"
\* are the two strings it returns, "raised" an exception of a copy.
restore_backup(ts, readable) ==
  LET b == backups[ts]
      d1 == CopyOut(b, disk)
  IN IF ~b.exists
     THEN Outcome(vector_store, disk, backups, cache, "not_found")
     ELSE IF CopyOutRaises(b)
     THEN Outcome(vector_store, d1, backups, cache, "raised")
     ELSE Outcome(_load_or_create_store(d1, readable), d1, backups, cache, "restored")

\* VectorStore.create_backup called by a user of the store: "none" is its
\* "No vector store to backup", "created" its "Backup created at ...".
vs_create_backup(fault) ==
  LET cb == create_backup(backups, disk, now, fault)
  IN Outcome(vector_store, disk, cb.backups, cache, cb.out)

\* StorageManager.create_backup: the same test and the same copies into the
\* same directory; returns the timestamp, or "" when there is no faiss_index.
sm_create_backup(fault) ==
  LET cb == create_backup(backups, disk, now, fault)
  IN Outcome(vector_store, disk, cb.backups, cache,
             IF cb.out = "created" THEN "timestamp" ELSE cb.out)

\* StorageManager.restore_backup: copies the files back, reloads nothing;
\* returns True or False.
sm_restore_backup(ts) ==
  LET b == backups[ts]
  IN IF ~b.exists
     THEN Outcome(vector_store, disk, backups, cache, "False")
     ELSE Outcome(vector_store, CopyOut(b, disk), backups, cache,
                  IF CopyOutRaises(b) THEN "raised" ELSE "True")

\* initialize_vector_store(texts) for n texts: FAISS.from_texts, and for no
\* texts a placeholder entry that delete(["placeholder"]) is to remove.  The
\* ids of the new store are uuid4 values; "placeholder" is the text of the
\* entry and the id of none.
initialize_vector_store(n) ==
  LET empty == [index |-> 0, dummy |-> 0, docs |-> 0]
      ph == add_texts(empty, 1)
  IN IF n > 0
     THEN [raised |-> FALSE, store |-> add_texts(empty, n)]
     ELSE IF DeleteRaises(ph, "list", "absent")
     THEN [raised |-> TRUE, store |-> ph]
     ELSE [raised |-> FALSE, store |-> faiss_delete(ph, "absent")]

\* RAGAgent.get_response up to the call of the chain: the local search,
\* then the web search when it found nothing.  web is what the provider
\* does: "hits", "nohits" or "raise".
get_response(embedOk, web) ==
  LET docs == similarity_search(vector_store, DefaultK, embedOk)
      fallback == (docs = 0)
  IN [docs |-> docs, fallback |-> fallback,
      result |-> IF fallback /\ web = "raise" THEN "error_text" ELSE "answer"]

\* ----------------------------------------------------------------- Init
\* persist_dir as the constructor finds it: empty, or holding faiss_index
\* and store.pkl.  No index.faiss is there, so both cases give a new store.
InitDisks ==
  {[faiss_index |-> {}, store_pkl |-> {}, index_faiss |-> {}, index_pkl |-> {}],
   [faiss_index |-> {LegacyIndex}, store_pkl |-> {LegacyStore},
    index_faiss |-> {}, index_pkl |-> {}]}

Init ==
  /\ disk \in InitDisks
  /\ vector_store = _load_or_create_store(disk, TRUE)
  /\ backups = [t \in Timestamps |-> NoBackup]
  /\ cache = [k \in Keys |-> {}]
  /\ now = 0
  /\ last = [Blank EXCEPT !.op = "init", !.result = "created"]
  /\ mark = NoMark
  /\ pc = [t \in Threads |-> Idle]

\* -------------------------------------------------------------- actions
Apply(o) ==
  /\ pc' = pc
  /\ vector_store' = o.vector_store
  /\ disk' = o.disk
  /\ backups' = o.backups
  /\ cache' = o.cache
  /\ now' = now

AddDocuments ==
  \E n \in 0..MaxChunks, fault \in AddFaults :
    LET o == add_documents(n, fault)
    IN /\ vector_store.docs + n <= MaxDocs
       /\ Apply(o)
       /\ last' = [Blank EXCEPT !.op = "add_documents", !.n = n, !.result = o.result]
       /\ mark' = IF mark.phase = 1 /\ n > 0 /\ o.result = "ok"
                  THEN [mark EXCEPT !.phase = 2] ELSE NoMark

DeleteDocument ==
  \E kind \in {"str", "list"}, names \in Names, fault \in DeleteFaults :
    LET o == delete_document(kind, names, fault)
    IN /\ Apply(o)
       /\ last' = [Blank EXCEPT !.op = "delete_document",
                                !.absent = IdAbsent(vector_store, names),
                                !.result = o.result]
       /\ mark' = NoMark

RestoreBackup ==
  \E ts \in Timestamps, readable \in BOOLEAN :
    LET o == restore_backup(ts, readable)
    IN /\ Apply(o)
       /\ last' = [Blank EXCEPT !.op = "restore_backup", !.ts = ts,
                                !.readable = readable, !.result = o.result]
       /\ mark' = NoMark

CreateBackup ==
  \E fault \in BackupFaults :
    LET o == vs_create_backup(fault)
    IN /\ Apply(o)
       /\ last' = [Blank EXCEPT !.op = "create_backup", !.result = o.result]
       /\ mark' = IF o.result = "created"
                  THEN [phase |-> 1, ts |-> now, disk |-> disk, vs |-> vector_store]
                  ELSE NoMark

SMCreateBackup ==
  \E fault \in BackupFaults :
    LET o == sm_create_backup(fault)
    IN /\ Apply(o)
       /\ last' = [Blank EXCEPT !.op = "sm_create_backup", !.result = o.result]
       /\ mark' = NoMark

SMRestoreBackup ==
  \E ts \in Timestamps :
    LET o == sm_restore_backup(ts)
    IN /\ Apply(o)
       /\ last' = [Blank EXCEPT !.op = "sm_restore_backup", !.ts = ts,
                                !.result = o.result]
       /\ mark' = NoMark

\* A new process: VectorStore.__init__ on the same persist_dir.
Restart ==
  \E readable \in BOOLEAN :
    /\ vector_store' = _load_or_create_store(disk, readable)
    /\ last' = [Blank EXCEPT !.op = "restart", !.readable = readable,
                  !.result = IF LoadCreates(disk, readable) THEN "created" ELSE "loaded"]
    /\ mark' = NoMark
    /\ UNCHANGED <<disk, backups, cache, now, pc>>

GetResponse ==
  \E embedOk \in BOOLEAN, web \in {"hits", "nohits", "raise"} :
    LET r == get_response(embedOk, web)
    IN /\ last' = [Blank EXCEPT !.op = "get_response", !.docs = r.docs,
                                !.fallback = r.fallback, !.result = r.result]
       /\ mark' = NoMark
       /\ UNCHANGED <<vector_store, disk, backups, cache, now, pc>>

InitializeVectorStore ==
  \E n \in 0..MaxChunks :
    LET r == initialize_vector_store(n)
    IN /\ last' = [Blank EXCEPT !.op = "initialize_vector_store", !.n = n,
                     !.result = IF r.raised THEN "raised" ELSE "ok",
                     !.docs = Entries(r.store)]
       /\ mark' = NoMark
       /\ UNCHANGED <<vector_store, disk, backups, cache, now, pc>>

CacheSetCall ==
  \E key \in Keys, value \in Values, ttl \in TtlArgs :
    /\ cache' = CacheSet(cache, key, value, ttl, now)
    /\ last' = [Blank EXCEPT !.op = "cache_set"]
    /\ mark' = NoMark
    /\ UNCHANGED <<vector_store, disk, backups, now, pc>>

CacheDeleteCall ==
  \E key \in Keys :
    /\ cache' = [cache EXCEPT ![key] = {}]
    /\ last' = [Blank EXCEPT !.op = "cache_delete"]
    /\ mark' = NoMark
    /\ UNCHANGED <<vector_store, disk, backups, now, pc>>

Tick ==
  /\ now < MaxClock
  /\ now' = now + 1
  /\ last' = [Blank EXCEPT !.op = "tick"]
  /\ mark' = NoMark
  /\ UNCHANGED <<vector_store, disk, backups, cache, pc>>

Next ==
  \/ AddDocuments
  \/ DeleteDocument
  \/ RestoreBackup
  \/ CreateBackup
  \/ SMCreateBackup
  \/ SMRestoreBackup
  \/ Restart
  \/ GetResponse
  \/ InitializeVectorStore
  \/ CacheSetCall
  \/ CacheDeleteCall
  \/ Tick

Spec == Init /\ [][Next]_vars

\* ================================================================ claims
\* An add_documents or delete_document call that commits: it changed the
\* index and persisted it, and returned normally.
Committed(l) ==
  \/ l.op = "add_documents" /\ l.result = "ok" /\ l.n > 0
  \/ l.op = "delete_document" /\ l.result = "ok"

\* No file of a store was ever written to persist_dir.
NeverPersisted(d) ==
  d.faiss_index = {} /\ d.store_pkl = {} /\ d.index_faiss = {} /\ d.index_pkl = {}

\* Backup directory b holds the files of d: a backup directory has room for
\* faiss_index and store.pkl alone, so d must have no other file.
SnapshotHolds(b, d) ==
  /\ b.exists
  /\ b.faiss_index = d.faiss_index /\ b.store_pkl = d.store_pkl
  /\ d.index_faiss = {} /\ d.index_pkl = {}

\* C1: every add_documents or delete_document call that commits wrote, in the
\* same call, a snapshot that holds the persisted files as they were before
\* the call; only the first ingestion into an empty, never persisted store
\* may commit without one.
C1_SnapshotBeforeCommit ==
  [][(Committed(last') /\ ~NeverPersisted(disk))
       => SnapshotHolds(backups'[now], disk)]_vars

\* C2: after every add_documents or delete_document that commits and every
\* restore_backup that restores, Cache.get returns no entry for any key.
C2_CacheEmptyAfterMutation ==
  [][(Committed(last') \/ (last'.op = "restore_backup" /\ last'.result = "restored"))
       => \A k \in Keys : CacheGet(cache', k, now') = {}]_vars

\* C3: an add_documents or delete_document call that raises leaves the
\* in-memory index and the persisted files as they were before the call.
C3_FailedMutationRolledBack ==
  [][(last'.op \in {"add_documents", "delete_document"} /\ last'.result = "error")
       => (vector_store' = vector_store /\ disk' = disk)]_vars

\* C4: create_backup, then a successful add_documents, then restore_backup of
\* that snapshot (the library being able to read the files it reloads) leave
\* the persisted files and the in-memory index, hence the entry count and the
\* search results, as they were when the snapshot was made.
C4_SnapshotRestoreRoundTrip ==
  [][(mark.phase = 2 /\ last'.op = "restore_backup" /\ last'.ts = mark.ts
        /\ last'.result = "restored" /\ last'.readable)
       => /\ disk' = mark.disk
          /\ vector_store' = mark.vs
          /\ similarity_search(vector_store', DefaultK, TRUE)
               = similarity_search(mark.vs, DefaultK, TRUE)]_vars

\* C5: a new VectorStore built on the same persist_dir right after a
\* committed add_documents loads what the add persisted (the library being
\* able to read its files): same entry count, same get_stats.
C5_PersistRestartRoundTrip ==
  [][(Committed(last) /\ last.op = "add_documents"
        /\ last'.op = "restart" /\ last'.readable)
       => /\ last'.result = "loaded"
          /\ Entries(vector_store') = Entries(vector_store)
          /\ get_stats' = get_stats]_vars

\* C6: a store created fresh (no persisted files, or a failed load) holds no
\* entry, in particular no initialization placeholder, and creating it raises
\* nothing; the same for initialize_vector_store without texts.
C6_FreshStoreIsEmpty ==
  /\ (last.op \in {"init", "restart"} /\ last.result = "created")
       => (Entries(vector_store) = 0 /\ vector_store.index = 0)
  /\ (last.op = "initialize_vector_store" /\ last.n = 0)
       => (last.result = "ok" /\ last.docs = 0)

\* C7: get_response on a store that holds no entry made from a document finds
\* no chunk and runs the web search; and it runs the web search exactly when
\* the local search found no chunk.
C7_EmptyStoreFallsBack ==
  last.op = "get_response"
    => /\ vector_store.docs = 0 => (last.docs = 0 /\ last.fallback)
       /\ last.fallback <=> (last.docs = 0)

\* C8, as claimed: delete_document with an id that is in no entry raises and
\* leaves the in-memory index, the persisted files, the snapshots and the
\* cache as they were.
C8_DeleteAbsentChangesNothing ==
  [][(last'.op = "delete_document" /\ last'.absent)
       => /\ last'.result = "error"
          /\ vector_store' = vector_store /\ disk' = disk
          /\ backups' = backups /\ cache' = cache]_vars

\* C8, amended: delete_document with an id that is in no entry raises and
\* leaves the in-memory index, the persisted files and the cache as they
\* were, and every snapshot directory other than the one of the current
\* second; create_backup has run by then and may have written that one.
C8_DeleteAbsentKeepsStore ==
  [][(last'.op = "delete_document" /\ last'.absent)
       => /\ last'.result = "error"
          /\ vector_store' = vector_store /\ disk' = disk /\ cache' = cache
          /\ \A t \in Timestamps : t # now => backups'[t] = backups[t]]_vars

\* C8 happens: a delete_document of an absent id has raised after
\* create_backup wrote a snapshot.
C8_Witness ==
  /\ last.op = "delete_document" /\ last.absent /\ last.result = "error"
  /\ backups[now].exists

\* C9: add_documents on an input that gives no chunk leaves the in-memory
\* index, the persisted files, the snapshots and the cache as they were.
C9_EmptyAddIsNoOp ==
  [][(last'.op = "add_documents" /\ last'.n = 0 /\ last'.result = "ok")
       => /\ vector_store' = vector_store /\ disk' = disk
          /\ backups' = backups /\ cache' = cache]_vars

\* C10: restore_backup (of VectorStore and of StorageManager) for a timestamp
\* without a backup directory tells its caller so, with a result that no
\* restore gives, and leaves the persisted files, the in-memory index, the
\* snapshots and the cache as they were.
C10_RestoreMissingChangesNothing ==
  [][(last'.op \in {"restore_backup", "sm_restore_backup"}
        /\ ~backups[last'.ts].exists)
       => /\ last'.result = (IF last'.op = "restore_backup" THEN "not_found"
                                                             ELSE "False")
          /\ vector_store' = vector_store /\ disk' = disk
          /\ backups' = backups /\ cache' = cache]_vars

\* C10 happens: a restore_backup was refused while the store in memory held
\* entries that a reload from persist_dir would not have given.
C10_Witness ==
  /\ last.op = "restore_backup" /\ last.result = "not_found"
  /\ vector_store # _load_or_create_store(disk, TRUE)

\* C11: a snapshot directory, once it exists, is never changed or removed by
\* a later call, and every create_backup that reports success leaves a
\* snapshot directory that did not exist before it.
C11_SnapshotsImmutableAdditive ==
  [][/\ \A t \in Timestamps : backups[t].exists => backups'[t] = backups[t]
     /\ (last'.op \in {"create_backup", "sm_create_backup"}
           /\ last'.result \in {"created", "timestamp"})
          => \E t \in Timestamps : backups'[t].exists /\ ~backups[t].exists]_vars

\* ------------------------------------------------ calls that meet faults
\* The same calls in an environment where a write or a copy can fail part
\* way (disk full, permission, the process killed): every fault of Faults.
AddDocumentsFaulty ==
  \E n \in 0..MaxChunks, fault \in Faults :
    LET o == add_documents(n, fault)
    IN /\ vector_store.docs + n <= MaxDocs
       /\ vector_store.index + n <= MaxVectors
       /\ Apply(o)
       /\ last' = [Blank EXCEPT !.op = "add_documents", !.n = n, !.result = o.result]
       /\ mark' = NoMark

CreateBackupFaulty ==
  \E fault \in {"none", "copy_index", "copy_store"} :
    LET o == vs_create_backup(fault)
    IN /\ Apply(o)
       /\ last' = [Blank EXCEPT !.op = "create_backup", !.result = o.result]
       /\ mark' = NoMark

NextFaulty ==
  \/ AddDocumentsFaulty
  \/ CreateBackupFaulty
  \/ RestoreBackup
  \/ Restart
  \/ Tick

SpecFaulty == Init /\ [][NextFaulty]_vars

\* A snapshot directory that holds both files.
Complete(b) == b.faiss_index # {} /\ b.store_pkl # {}

\* C12: every snapshot directory that exists holds both the index file and
\* the metadata file, also after a create_backup that failed part way.
C12_SnapshotsComplete ==
  \A t \in Timestamps : backups[t].exists => Complete(backups[t])

\* The two files that save_local wrote come from two different persists: the
\* index has another number of vectors than index.pkl has entries.
Torn(d) ==
  /\ d.index_faiss # {} /\ d.index_pkl # {}
  /\ \E ix \in d.index_faiss, ds \in d.index_pkl : ix # ds.dummy + ds.docs

\* C13: save_local writes index.pkl only after index.faiss was written, and a
\* VectorStore built on a persist_dir whose two files come from two
\* different persists does not load them but creates a new store.
C13_TornPersistDetected ==
  [][/\ disk'.index_pkl # disk.index_pkl => disk'.index_faiss # {}
     /\ (last'.op = "restart" /\ Torn(disk)) => last'.result = "created"]_vars

\* ------------------------------------------------- calls step by step
\* add_documents as the statements a thread runs one after the other, with
\* the other threads free to run between any two of them: nothing in
\* VectorStore, RAGAgent or the two applications takes a lock.  pc[t].at is
\* the statement thread t runs next:
\*   "backup"        self.create_backup()                 vector_store.py:97
\*   "index_add"     add_texts: self.index.add(vector)    vector_store.py:103
\*   "docstore_add"  add_texts: docstore.add(...) and
\*                   index_to_docstore_id.update(...)     vector_store.py:103
\*   "save_index"    save_local: write index.faiss        vector_store.py:109
\*   "save_pkl"      save_local: write index.pkl          vector_store.py:109
\*   "clear"         self.cache.cache.clear()             vector_store.py:112
\* pc[t].solo says that no other thread was inside add_documents at any
\* time since t entered it.
InFlight == {t \in Threads : pc[t].at # "idle"}

Pending == IF InFlight = {} THEN 0
           ELSE IF InFlight = Threads THEN pc["t1"].n + pc["t2"].n
           ELSE LET t == CHOOSE x \in InFlight : TRUE IN pc[t].n

Step(t, at) ==
  /\ pc' = [pc EXCEPT ![t].at = at]
  /\ last' = [Blank EXCEPT !.op = "step"]
  /\ mark' = NoMark

\* A thread enters add_documents with documents that chunk into n chunks.
TBegin ==
  \E t \in Threads, n \in 0..MaxChunks :
    /\ pc[t].at = "idle"
    /\ vector_store.docs + Pending + n <= MaxDocs
    /\ pc' = [u \in Threads |->
                IF u = t
                THEN [at |-> "backup", n |-> n, pre |-> vector_store,
                      solo |-> (InFlight = {})]
                ELSE [pc[u] EXCEPT !.solo = (pc[u].at = "idle")]]
    /\ last' = [Blank EXCEPT !.op = "step"]
    /\ mark' = NoMark
    /\ UNCHANGED <<vector_store, disk, backups, cache, now>>

TBackup ==
  \E t \in Threads :
    /\ pc[t].at = "backup"
    /\ backups' = create_backup(backups, disk, now, "none").backups
    /\ IF pc[t].n = 0
       THEN /\ pc' = [pc EXCEPT ![t] = Idle]
            /\ last' = [Blank EXCEPT !.op = "add_documents", !.result = "ok"]
            /\ mark' = NoMark
       ELSE Step(t, "index_add")
    /\ UNCHANGED <<vector_store, disk, cache, now>>

TIndexAdd ==
  \E t \in Threads :
    /\ pc[t].at = "index_add"
    /\ vector_store' = [vector_store EXCEPT !.index = @ + pc[t].n]
    /\ Step(t, "docstore_add")
    /\ UNCHANGED <<disk, backups, cache, now>>

TDocstoreAdd ==
  \E t \in Threads :
    /\ pc[t].at = "docstore_add"
    /\ vector_store' = [vector_store EXCEPT !.docs = @ + pc[t].n]
    /\ Step(t, "save_index")
    /\ UNCHANGED <<disk, backups, cache, now>>

TSaveIndex ==
  \E t \in Threads :
    /\ pc[t].at = "save_index"
    /\ disk' = save_local(vector_store, disk, "save_pkl")  \* index.faiss alone
    /\ Step(t, "save_pkl")
    /\ UNCHANGED <<vector_store, backups, cache, now>>

TSavePkl ==
  \E t \in Threads :
    /\ pc[t].at = "save_pkl"
    /\ disk' = [disk EXCEPT !.index_pkl =
                  {[dummy |-> vector_store.dummy, docs |-> vector_store.docs]}]
    /\ Step(t, "clear")
    /\ UNCHANGED <<vector_store, backups, cache, now>>

TClear ==
  \E t \in Threads :
    /\ pc[t].at = "clear"
    /\ cache' = CacheClear(cache)
    /\ pc' = [pc EXCEPT ![t] = Idle]
    /\ last' = [Blank EXCEPT !.op = "add_documents", !.n = pc[t].n, !.result = "ok"]
    /\ mark' = NoMark
    /\ UNCHANGED <<vector_store, disk, backups, now>>

\* A thread that is not inside add_documents runs similarity_search (the
\* retriever of the chain in its worker thread does the same search).
TSearch ==
  \E t \in Threads :
    /\ pc[t].at = "idle"
    /\ last' = [Blank EXCEPT !.op = "similarity_search",
                             !.docs = similarity_search(vector_store, DefaultK, TRUE)]
    /\ mark' = NoMark
    /\ UNCHANGED <<vector_store, disk, backups, cache, now, pc>>

\* A thread that is not inside add_documents runs get_stats: docs is
\* total_documents, n is total_vectors.
TStats ==
  \E t \in Threads :
    /\ pc[t].at = "idle"
    /\ last' = [Blank EXCEPT !.op = "get_stats",
                             !.result = IF get_stats.error THEN "error" ELSE "ok",
                             !.docs = get_stats.total_documents,
                             !.n = get_stats.total_vectors]
    /\ mark' = NoMark
    /\ UNCHANGED <<vector_store, disk, backups, cache, now, pc>>

NextThreads ==
  \/ TBegin
  \/ TBackup
  \/ TIndexAdd
  \/ TDocstoreAdd
  \/ TSaveIndex
  \/ TSavePkl
  \/ TClear
  \/ TSearch
  \/ TStats
  \/ CacheSetCall
  \/ Tick

SpecThreads == Init /\ [][NextThreads]_vars

\* C14: at most one thread is inside add_documents (between its entry and
\* its cache clear) at any time.
C14_SingleWriter ==
  Cardinality(InFlight) <= 1

\* C15: a similarity_search or get_stats that runs while one add_documents,
\* and no other, is under way returns what it would return on the store as
\* that call found it or on the store with all the chunks of the call added.
C15_ReadsSeeWholeMutations ==
  [][\A t \in Threads :
       (pc[t].at # "idle" /\ pc[t].solo /\ InFlight = {t})
         => LET pre == pc[t].pre
                post == add_texts(pc[t].pre, pc[t].n)
            IN /\ last'.op = "similarity_search"
                    => last'.docs \in {similarity_search(pre, DefaultK, TRUE),
                                       similarity_search(post, DefaultK, TRUE)}
               /\ (last'.op = "get_stats" /\ last'.result = "ok")
                    => <<last'.docs, last'.n>> \in
                         {<<Entries(pre), pre.index>>, <<Entries(post), post.index>>}]_vars

\* C16: a get_response whose local search found nothing, and so ran the web
\* search, never answers with the text of an error: a web search that fails
\* counts as one that found nothing.
C16_FallbackFailureAbsorbed ==
  (last.op = "get_response" /\ last.fallback) => last.result = "answer"

\* ------------------------------------------------------------ web search
\* A text is the sequence of its characters.  A link is "https://" followed
\* by a host and, for some, a port, then a path: urlparse(link).netloc is
\* the host together with the port.
Ke == <<".", "k", "e">>

\* Config.KENYA_DOMAINS
KENYA_DOMAINS ==
  <<Ke, <<"c", "o">> \o Ke, <<"a", "c">> \o Ke, <<"g", "o">> \o Ke, <<"o", "r">> \o Ke>>

Hosts ==
  {<<"a">> \o Ke, <<"A", ".", "K", "E">>, <<"a", "k", "e">>, <<"a", ".", "c", "o", "m">>}

Ports == {<< >>, <<":", "8">>}

\* The links the provider gives: each host without a port, and a.ke with one.
Links ==
  {[host |-> h, port |-> << >>] : h \in Hosts}
    \cup {[host |-> <<"a">> \o Ke, port |-> p] : p \in Ports}

\* Largest number of hits the provider returns.
MaxHits == 3
\* self.ddgs.text(query, max_results=20)
ProviderMax == 20
\* Config.MAX_SEARCH_RESULTS, the default of search(query, max_results=5)
DefaultMaxResults == 5

Hit(l) == [title |-> "title", link |-> l, body |-> "body"]

HitLists ==
  UNION {[1..n -> {Hit(l) : l \in Links}] : n \in 0..MaxHits}

MaxResultsArgs == {0, 1, 2, DefaultMaxResults}

\* str.lower() on the characters in use.
LowerChar(c) ==
  IF c = "A" THEN "a" ELSE IF c = "K" THEN "k" ELSE IF c = "E" THEN "e"
  ELSE IF c = "P" THEN "p" ELSE IF c = "D" THEN "d" ELSE IF c = "F" THEN "f"
  ELSE c

Lower(s) == [i \in 1..Len(s) |-> LowerChar(s[i])]

\* str.endswith
EndsWith(s, suffix) ==
  /\ Len(s) >= Len(suffix)
  /\ SubSeq(s, Len(s) - Len(suffix) + 1, Len(s)) = suffix

\* urlparse(url).netloc
netloc(url) == url.host \o url.port

\* KenyanWebSearch.is_kenyan_domain
is_kenyan_domain(url) ==
  LET domain == Lower(netloc(url))
  IN \E i \in 1..Len(KENYA_DOMAINS) : EndsWith(domain, KENYA_DOMAINS[i])

\* The loop of KenyanWebSearch.search over the hits left, results so far.
RECURSIVE SearchLoop(_, _, _)
SearchLoop(hits, results, max_results) ==
  IF hits = << >> THEN results
  ELSE LET r == Head(hits)
       IN SearchLoop(Tail(hits),
                     IF is_kenyan_domain(r.link) /\ Len(results) < max_results
                     THEN Append(results, [title |-> r.title, link |-> r.link,
                                           snippet |-> r.body])
                     ELSE results,
                     max_results)

\* KenyanWebSearch.search(query, max_results) when the provider has hits for
\* the query: it is asked for ProviderMax of them.
search(hits, max_results) ==
  SearchLoop(SubSeq(hits, 1, Min(Len(hits), ProviderMax)), << >>, max_results)

\* The inputs of one search, then the search.
InitSearch ==
  /\ disk = [faiss_index |-> {}, store_pkl |-> {}, index_faiss |-> {}, index_pkl |-> {}]
  /\ vector_store = _load_or_create_store(disk, TRUE)
  /\ backups = [t \in Timestamps |-> NoBackup]
  /\ cache = [k \in Keys |-> {}]
  /\ now = 0
  /\ mark = NoMark
  /\ pc = [t \in Threads |-> Idle]
  /\ last \in [op : {"input"}, hits : HitLists, max_results : MaxResultsArgs,
               results : {<< >>}]

WebSearch ==
  /\ last.op = "input"
  /\ last' = [last EXCEPT !.op = "search",
                          !.results = search(last.hits, last.max_results)]
  /\ UNCHANGED <<vector_store, disk, backups, cache, now, mark, pc>>

NextSearch == WebSearch

SpecSearch == InitSearch /\ [][NextSearch]_vars

\* The host of the link is in a regional domain: it ends in one of the
\* suffixes, whatever the case of its letters.
Regional(url) ==
  \E i \in 1..Len(KENYA_DOMAINS) : EndsWith(Lower(url.host), KENYA_DOMAINS[i])

\* The hits of a list that are in a regional domain, in the order of the list.
RECURSIVE RegionalHits(_)
RegionalHits(hits) ==
  IF hits = << >> THEN << >>
  ELSE IF Regional(Head(hits).link)
       THEN <<Head(hits)>> \o RegionalHits(Tail(hits))
       ELSE RegionalHits(Tail(hits))

\* C17: search returns the first max_results of the provider hits whose link
\* is in a regional domain, in provider order: never more than max_results
\* and never a hit outside the allow-list.
C17_SearchReturnsFirstRegionalHits ==
  last.op = "search"
    => LET want == RegionalHits(SubSeq(last.hits, 1, Min(Len(last.hits), ProviderMax)))
           n == Min(Len(want), last.max_results)
       IN /\ Len(last.results) = n
          /\ \A i \in 1..n : last.results[i].link = want[i].link

\* C18: similarity_search, as get_response calls it, returns no document
\* when the store holds no entry, returns no document for any k when the
\* embedding of the query fails, and leaves the store, its files, the
\* snapshots and the cache as they were.
C18_SearchEmptyAndPure ==
  [][last'.op = "get_response"
       => /\ Entries(vector_store) = 0 => last'.docs = 0
          /\ \A k \in 1..DefaultK : similarity_search(vector_store, k, FALSE) = 0
          /\ UNCHANGED <<vector_store, disk, backups, cache>>]_vars

\* C18 happens: get_response searched a store from which every entry had
\* been deleted, found nothing and went on to the web search.
C18_Witness ==
  /\ last.op = "get_response" /\ last.docs = 0 /\ last.fallback
  /\ Entries(vector_store) = 0

\* ---------------------------------------------------------- cache expiry
\* Cache.set with and without ttl, Cache.get and Cache.delete while the
\* clock advances by a second or by the default TTL.
\* The clock of the cache calls is let advance second by second for
\* MaxSeconds seconds, from 0 and from the default TTL.
MaxSeconds == 3

\* The ttl arguments of set: None, 0, 1 and 2 seconds.
CacheTtlArgs == {NoTtl, 0, 1, 2}

\* No Cache.set to remember.
NoSet == [phase |-> 0, ts |-> 0, ttl |-> NoTtl, value |-> ""]

InitCache ==
  /\ disk = [faiss_index |-> {}, store_pkl |-> {}, index_faiss |-> {}, index_pkl |-> {}]
  /\ vector_store = _load_or_create_store(disk, TRUE)
  /\ backups = [t \in Timestamps |-> NoBackup]
  /\ cache = [k \in Keys |-> {}]
  /\ now = 0
  /\ last = [Blank EXCEPT !.op = "init", !.result = "created"]
  /\ mark = NoSet
  /\ pc = [t \in Threads |-> Idle]

\* Cache.set(key, value, ttl)
CacheSetTtl ==
  \E key \in Keys, value \in Values, ttl \in CacheTtlArgs :
    /\ cache' = CacheSet(cache, key, value, ttl, now)
    /\ last' = [Blank EXCEPT !.op = "cache_set"]
    /\ mark' = [phase |-> 1, ts |-> now, ttl |-> ttl, value |-> value]
    /\ UNCHANGED <<vector_store, disk, backups, now, pc>>

\* Cache.get(key): the value, or None ("absent").
CacheGetCall ==
  \E key \in Keys :
    /\ last' = [Blank EXCEPT !.op = "cache_get",
                  !.result = IF CacheGet(cache, key, now) = {} THEN "absent"
                             ELSE CHOOSE v \in CacheGet(cache, key, now) : TRUE]
    /\ UNCHANGED <<vector_store, disk, backups, cache, now, mark, pc>>

\* Cache.delete(key)
CacheDeleteKey ==
  \E key \in Keys :
    /\ cache' = [cache EXCEPT ![key] = {}]
    /\ last' = [Blank EXCEPT !.op = "cache_delete"]
    /\ mark' = NoSet
    /\ UNCHANGED <<vector_store, disk, backups, now, pc>>

\* Time passes: a second, or as long as the default TTL.
Advance ==
  \E d \in {1, DefaultTtl} :
    /\ now + d <= DefaultTtl + MaxSeconds
    /\ d = 1 => now % DefaultTtl < MaxSeconds
    /\ now' = now + d
    /\ last' = [Blank EXCEPT !.op = "tick"]
    /\ UNCHANGED <<vector_store, disk, backups, cache, mark, pc>>

NextCache ==
  \/ CacheSetTtl
  \/ CacheGetCall
  \/ CacheDeleteKey
  \/ Advance

SpecCache == InitCache /\ [][NextCache]_vars

\* C19: a get of a key that was set (and not set again or deleted since)
\* returns the value while less than the ttl has elapsed since the set, and
\* absent once more than the ttl has elapsed; the ttl is the one supplied,
\* or 3600 seconds when none was supplied.
C19_ExpiresAfterSuppliedTtl ==
  (last.op = "cache_get" /\ mark.phase = 1)
    => LET ttl == IF mark.ttl = NoTtl THEN DefaultTtl ELSE mark.ttl
           elapsed == now - mark.ts
       IN /\ elapsed < ttl => last.result = mark.value
          /\ elapsed > ttl => last.result = "absent"

\* ------------------------------------------------------------- memoize
\* The functions given to Cache.memoize: two different functions whose
\* __name__ is the same (two lambdas, or two functions of two modules),
\* and one that returns None.
Funcs == {"a.fetch", "b.fetch", "c.find"}

\* func.__name__
FuncName(f) == IF f = "c.find" THEN "find" ELSE "fetch"

Args == {1, 2}

\* repr of an argument, as str(args) gives it.
Repr(a) == IF a = 1 THEN "1" ELSE "2"

\* func(a): the functions are pure.
FuncValue(f, a) ==
  IF f = "a.fetch" THEN (IF a = 1 THEN "a1" ELSE "a2")
  ELSE IF f = "b.fetch" THEN (IF a = 1 THEN "b1" ELSE "b2")
  ELSE "None"

\* key = f"{func.__name__}:{str(args)}:{str(kwargs)}" for a call func(a).
MemoKey(f, a) == <<FuncName(f), <<Repr(a)>>, << >> >>

MemoKeys == {MemoKey(f, a) : f \in Funcs, a \in Args}

\* The wrapper of memoize called as func(a): result is what it returns,
\* called whether it called func, cache the cache it leaves.
memoize(f, a) ==
  LET key == MemoKey(f, a)
      got == CacheGet(cache, key, now)
      miss == got = {} \/ got = {"None"}
      result == IF miss THEN FuncValue(f, a) ELSE CHOOSE v \in got : TRUE
  IN [result |-> result, called |-> miss,
      cache |-> IF miss THEN CacheSet(cache, key, result, NoTtl, now) ELSE cache]

InitMemo ==
  /\ disk = [faiss_index |-> {}, store_pkl |-> {}, index_faiss |-> {}, index_pkl |-> {}]
  /\ vector_store = _load_or_create_store(disk, TRUE)
  /\ backups = [t \in Timestamps |-> NoBackup]
  /\ cache = [k \in MemoKeys |-> {}]
  /\ now = 0
  /\ last = [op |-> "init", func |-> "", arg |-> 0, result |-> "", called |-> FALSE]
  /\ mark = NoSet
  /\ pc = [t \in Threads |-> Idle]

MemoCall ==
  \E f \in Funcs, a \in Args :
    LET m == memoize(f, a)
    IN /\ cache' = m.cache
       /\ last' = [op |-> "memoize", func |-> f, arg |-> a,
                   result |-> m.result, called |-> m.called]
       /\ UNCHANGED <<vector_store, disk, backups, now, mark, pc>>

\* Time passes: a second, or as long as the default TTL.
MemoAdvance ==
  \E d \in {1, DefaultTtl} :
    /\ now + d <= DefaultTtl + MaxSeconds
    /\ d = 1 => now % DefaultTtl < MaxSeconds
    /\ now' = now + d
    /\ last' = [op |-> "tick", func |-> "", arg |-> 0, result |-> "", called |-> FALSE]
    /\ UNCHANGED <<vector_store, disk, backups, cache, mark, pc>>

NextMemo ==
  \/ MemoCall
  \/ MemoAdvance

SpecMemo == InitMemo /\ [][NextMemo]_vars

\* C20: the wrapper of memoize, called as func(a), returns func(a): neither
\* the value cached for another function nor the one cached for other
\* arguments.
C20_MemoizeReturnsFunctionValue ==
  last.op = "memoize" => last.result = FuncValue(last.func, last.arg)

\* -------------------------------------------------------------- chunker
\* DocumentProcessor: RecursiveCharacterTextSplitter(chunk_size,
\* chunk_overlap, length_function=len, add_start_index=True) with the
\* library's defaults (separators "\n\n", "\n", " ", ""; keep_separator;
\* strip_whitespace), then the metadata chunk_documents adds.
\* A text is the sequence of its characters.  A piece of a text is
\* [s, at]: its characters and, for the statements about positions, the
\* offset in the source at which they stand (the library keeps s alone).
Chars == {"a", " ", "\n"}

Whitespace == {" ", "\n"}

\* Longest document text.
MaxText == 4
\* Longest text of a document chunked together with another one.
MaxShort == 1
\* Largest chunk_size and chunk_overlap.
MaxSize == 3

Texts == UNION {[1..n -> Chars] : n \in 0..MaxText}

ShortTexts == UNION {[1..n -> Chars] : n \in 0..MaxShort}

\* The document lists given to chunk_documents.
DocLists == {<<t>> : t \in Texts} \cup {<<t, u>> : t \in ShortTexts, u \in ShortTexts}

\* The separators of RecursiveCharacterTextSplitter.
Separators == << <<"\n", "\n">>, <<"\n">>, <<" ">>, << >> >>

Max(a, b) == IF a >= b THEN a ELSE b

\* TextSplitter.__init__ raises ValueError for a chunk_overlap larger than
\* chunk_size, and for no other pair of positive size and overlap.
SplitterRaises(size, overlap) == overlap > size

\* re.search(separator, text)
Occurs(s, sep) ==
  \E i \in 1..(Len(s) - Len(sep) + 1) : SubSeq(s, i, i + Len(sep) - 1) = sep

\* The starts of the matches of re.split: leftmost, not overlapping.
RECURSIVE Matches(_, _, _)
Matches(s, sep, i) ==
  IF i + Len(sep) - 1 > Len(s) THEN {}
  ELSE IF SubSeq(s, i, i + Len(sep) - 1) = sep
       THEN {i} \cup Matches(s, sep, i + Len(sep))
       ELSE Matches(s, sep, i + 1)

\* _split_text_with_regex with keep_separator: the text is cut where a
\* separator starts (a separator stays at the head of the piece after it);
\* for the separator "" it is cut into its characters.  A text that is cut
\* is not empty, so no piece is.
PiecesOf(p, sep) ==
  LET cuts == IF sep = << >> THEN 1..Len(p.s) ELSE {1} \cup Matches(p.s, sep, 1)
      n == Cardinality(cuts)
      kth(k) == CHOOSE c \in cuts : Cardinality({x \in cuts : x <= c}) = k
      endOf(k) == IF k = n THEN Len(p.s) ELSE kth(k + 1) - 1
  IN [k \in 1..n |-> [s |-> SubSeq(p.s, kth(k), endOf(k)), at |-> p.at + kth(k) - 1]]

\* str.strip(): the piece without its leading and trailing whitespace.
RECURSIVE Lead(_)
Lead(s) == IF s = << >> \/ Head(s) \notin Whitespace THEN 0 ELSE 1 + Lead(Tail(s))

RECURSIVE Trail(_)
Trail(s) ==
  IF s = << >> \/ s[Len(s)] \notin Whitespace THEN 0
  ELSE 1 + Trail(SubSeq(s, 1, Len(s) - 1))

Strip(p) ==
  IF Lead(p.s) = Len(p.s) THEN [s |-> << >>, at |-> p.at]
  ELSE [s |-> SubSeq(p.s, Lead(p.s) + 1, Len(p.s) - Trail(p.s)), at |-> p.at + Lead(p.s)]

RECURSIVE Concat(_)
Concat(pieces) == IF pieces = << >> THEN << >> ELSE Head(pieces).s \o Concat(Tail(pieces))

\* _join_docs: the pieces joined and stripped; no chunk when nothing is left.
_join_docs(current) ==
  LET p == Strip([s |-> Concat(current),
                  at |-> IF current = << >> THEN 0 ELSE Head(current).at])
  IN IF p.s = << >> THEN << >> ELSE <<p>>

\* The while loop of _merge_splits that drops pieces from the front of
\* current_doc (the joined separator is "", of length 0).
RECURSIVE Pop(_, _, _, _, _)
Pop(current, total, len, size, overlap) ==
  IF total > overlap \/ (total + len > size /\ total > 0)
  THEN Pop(Tail(current), total - Len(Head(current).s), len, size, overlap)
  ELSE [current |-> current, total |-> total]

\* _merge_splits: the for loop over the splits left.
RECURSIVE MergeLoop(_, _, _, _, _, _)
MergeLoop(splits, current, total, docs, size, overlap) ==
  IF splits = << >> THEN docs \o _join_docs(current)
  ELSE LET d == Head(splits)
           len == Len(d.s)
           emit == total + len > size /\ current # << >>
           popped == IF emit THEN Pop(current, total, len, size, overlap)
                     ELSE [current |-> current, total |-> total]
       IN MergeLoop(Tail(splits), Append(popped.current, d), popped.total + len,
                    IF emit THEN docs \o _join_docs(current) ELSE docs,
                    size, overlap)

_merge_splits(splits, size, overlap) ==
  MergeLoop(splits, << >>, 0, << >>, size, overlap)

\* The separator _split_text picks: the first that is "" or occurs in the text.
SepIndex(s, seps) ==
  CHOOSE i \in 1..Len(seps) :
    /\ seps[i] = << >> \/ Occurs(s, seps[i])
    /\ \A j \in 1..(i - 1) : ~(seps[j] = << >> \/ Occurs(s, seps[j]))

\* RecursiveCharacterTextSplitter._split_text and its for loop over the
\* splits: pieces shorter than chunk_size are merged, the others are split
\* with the separators left, or kept as they are when none is left.
RECURSIVE _split_text(_, _, _, _)
RECURSIVE SplitLoop(_, _, _, _, _, _)
SplitLoop(pieces, good, final, newseps, size, overlap) ==
  LET merged == IF good = << >> THEN << >> ELSE _merge_splits(good, size, overlap)
  IN IF pieces = << >> THEN final \o merged
     ELSE LET s == Head(pieces)
          IN IF Len(s.s) < size
             THEN SplitLoop(Tail(pieces), Append(good, s), final, newseps, size, overlap)
             ELSE SplitLoop(Tail(pieces), << >>,
                            final \o merged \o
                              (IF newseps = << >> THEN <<s>>
                               ELSE _split_text(s, newseps, size, overlap)),
                            newseps, size, overlap)

_split_text(p, seps, size, overlap) ==
  LET i == SepIndex(p.s, seps)
      newseps == IF seps[i] = << >> THEN << >> ELSE SubSeq(seps, i + 1, Len(seps))
  IN SplitLoop(PiecesOf(p, seps[i]), << >>, << >>, newseps, size, overlap)

\* str.find(sub, start): the least offset from start on at which sub stands,
\* or -1.
Find(text, sub, start) ==
  LET found == {i \in start..(Len(text) - Len(sub)) :
                  SubSeq(text, i + 1, i + Len(sub)) = sub}
  IN IF found = {} THEN -1 ELSE CHOOSE i \in found : \A j \in found : i <= j

\* create_documents with add_start_index: start_index of each chunk is
\* where find meets its content.  The releases of the library differ in
\* where the search starts: by_offset, at the overlap before the end of the
\* chunk before it (index + previous_chunk_len - chunk_overlap, index being
\* 0 at first); otherwise one past the start found for the chunk before it
\* (index + 1, index being -1 at first).
RECURSIVE StartLoop(_, _, _, _, _, _, _, _)
StartLoop(text, chunks, index, previous_chunk_len, overlap, doc, by_offset, out) ==
  IF chunks = << >> THEN out
  ELSE LET chunk == Head(chunks)
           offset == index + previous_chunk_len - overlap
           found == IF by_offset THEN Find(text, chunk.s, Max(0, offset))
                    ELSE Find(text, chunk.s, index + 1)
       IN StartLoop(text, Tail(chunks), found, Len(chunk.s), overlap, doc, by_offset,
                    Append(out, [page_content |-> chunk.s, start_index |-> found,
                                 at |-> chunk.at, doc |-> doc]))

create_documents(text, doc, size, overlap, by_offset) ==
  StartLoop(text, _split_text([s |-> text, at |-> 0], Separators, size, overlap),
            IF by_offset THEN 0 ELSE -1, 0, overlap, doc, by_offset, << >>)

\* split_documents: the chunks of each document, in the order of the list.
RECURSIVE split_documents(_, _, _, _, _)
split_documents(documents, doc, size, overlap, by_offset) ==
  IF documents = << >> THEN << >>
  ELSE create_documents(Head(documents), doc, size, overlap, by_offset)
         \o split_documents(Tail(documents), doc + 1, size, overlap, by_offset)

\* hashlib.sha256(content.encode()).hexdigest(): a digest of the content
\* and of nothing else.
_generate_chunk_hash(content) == <<"sha256", content>>

\* DocumentProcessor(chunk_size, chunk_overlap).chunk_documents(documents):
\* raised when the splitter could not be built, else the chunks with their
\* metadata.
chunk_documents(documents, size, overlap, by_offset) ==
  IF SplitterRaises(size, overlap) THEN [raised |-> TRUE, chunks |-> << >>]
  ELSE LET chunks == split_documents(documents, 1, size, overlap, by_offset)
       IN [raised |-> FALSE,
           chunks |-> [i \in 1..Len(chunks) |->
                         [page_content |-> chunks[i].page_content,
                          start_index |-> chunks[i].start_index,
                          at |-> chunks[i].at,
                          doc |-> chunks[i].doc,
                          chunk_id |-> i - 1,
                          chunk_hash |-> _generate_chunk_hash(chunks[i].page_content),
                          chunk_size |-> Len(chunks[i].page_content),
                          total_chunks |-> Len(chunks)]]]

\* The arguments of one chunk_documents call, then the call.
InitChunk ==
  /\ disk = [faiss_index |-> {}, store_pkl |-> {}, index_faiss |-> {}, index_pkl |-> {}]
  /\ vector_store = _load_or_create_store(disk, TRUE)
  /\ backups = [t \in Timestamps |-> NoBackup]
  /\ cache = [k \in Keys |-> {}]
  /\ now = 0
  /\ mark = NoMark
  /\ pc = [t \in Threads |-> Idle]
  /\ last \in [op : {"input"}, documents : DocLists, chunk_size : 1..MaxSize,
               chunk_overlap : 0..MaxSize, by_offset : BOOLEAN,
               raised : {FALSE}, chunks : {<< >>}]

ChunkDocuments ==
  /\ last.op = "input"
  /\ LET r == chunk_documents(last.documents, last.chunk_size, last.chunk_overlap,
                              last.by_offset)
     IN last' = [last EXCEPT !.op = "chunk_documents", !.raised = r.raised,
                             !.chunks = r.chunks]
  /\ UNCHANGED <<vector_store, disk, backups, cache, now, mark, pc>>

NextChunk == ChunkDocuments

SpecChunk == InitChunk /\ [][NextChunk]_vars

\* C21: in what chunk_documents returns, chunk_id increases strictly along
\* the list, chunk_size is the length of the content, chunks of equal
\* content have equal chunk_hash, and total_chunks of a chunk is the number
\* of chunks made from the document the chunk comes from.
C21_ChunkMetadata ==
  (last.op = "chunk_documents" /\ ~last.raised)
    => LET chunks == last.chunks
           N == 1..Len(chunks)
       IN /\ \A i, j \in N : i < j => chunks[i].chunk_id < chunks[j].chunk_id
          /\ \A i \in N : chunks[i].chunk_size = Len(chunks[i].page_content)
          /\ \A i, j \in N : chunks[i].page_content = chunks[j].page_content
                               => chunks[i].chunk_hash = chunks[j].chunk_hash
          /\ \A i \in N : chunks[i].total_chunks
                            = Cardinality({j \in N : chunks[j].doc = chunks[i].doc})

\* The text has no whitespace, hence no boundary for a chunk to snap to.
Unbroken(text) == \A i \in 1..Len(text) : text[i] \notin Whitespace

\* C22: for chunk_size > overlap >= 0, every chunk is at most chunk_size
\* long; two consecutive chunks of a document share overlap characters
\* (fewer only where the chunks snap to a whitespace boundary); and the
\* start_index recorded for a chunk is the offset in its document at which
\* the chunk stands.
C22_ChunksBoundedOverlappingPlaced ==
  (last.op = "chunk_documents" /\ ~last.raised /\ last.chunk_size > last.chunk_overlap)
    => LET chunks == last.chunks
           N == 1..Len(chunks)
           Shared(i) == chunks[i].at + Len(chunks[i].page_content) - chunks[i + 1].at
       IN /\ \A i \in N : Len(chunks[i].page_content) <= last.chunk_size
          /\ \A i \in N : (i + 1 \in N /\ chunks[i + 1].doc = chunks[i].doc)
               => /\ Shared(i) <= last.chunk_overlap
                  /\ Unbroken(last.documents[chunks[i].doc])
                       => Shared(i) = last.chunk_overlap
          /\ \A i \in N : chunks[i].start_index = chunks[i].at

\* C23: chunking with chunk_overlap >= chunk_size, or of a document whose
\* content is empty, fails: it returns no sequence of chunks, empty or not.
C23_BadChunkingInputFails ==
  (last.op = "chunk_documents"
     /\ (last.chunk_overlap >= last.chunk_size
           \/ \E i \in 1..Len(last.documents) : last.documents[i] = << >>))
    => last.raised

\* ------------------------------------------------------ listing backups
\* The name of the snapshot directory of timestamp t.
BackupName(t) == <<"backup_", t>>

\* The orders in which backup_dir.glob("backup_*") can enumerate the
\* snapshot directories that exist: glob sorts nothing, the order is the
\* file system's.
GlobOrders(bk) ==
  LET S == {t \in Timestamps : bk[t].exists}
  IN {f \in [1..Cardinality(S) -> {BackupName(t) : t \in S}] :
        \A i, j \in 1..Cardinality(S) : i # j => f[i] # f[j]}

\* StorageManager.list_backups on the enumeration entries:
\* d.name.replace("backup_", "") of each entry, in the order met.
list_backups(entries) == [i \in 1..Len(entries) |-> entries[i][2]]

ListBackups ==
  \E entries \in GlobOrders(backups) :
    /\ last' = [op |-> "list_backups", listed |-> list_backups(entries)]
    /\ mark' = NoMark
    /\ UNCHANGED <<vector_store, disk, backups, cache, now, pc>>

NextBackups ==
  \/ AddDocuments
  \/ CreateBackup
  \/ SMCreateBackup
  \/ RestoreBackup
  \/ Tick
  \/ ListBackups

SpecBackups == Init /\ [][NextBackups]_vars

\* C24: list_backups returns the timestamp of every snapshot that exists,
\* each once, the older before the newer.
C24_ListBackupsSorted ==
  last.op = "list_backups"
    => LET l == last.listed
       IN /\ {l[i] : i \in 1..Len(l)} = {t \in Timestamps : backups[t].exists}
          /\ \A i, j \in 1..Len(l) : i < j => l[i] < l[j]

\* ------------------------------------------- the retriever of the chain
\* RAGAgent.__init__ builds the chain once, on
\* self.vector_store.vector_store.as_retriever(): the retriever holds a
\* reference to the FAISS object the VectorStore holds at that moment.
\* retriever is the content of the object the retriever holds, shared
\* whether it is the object VectorStore.vector_store refers to.
as_retriever(vs) == [retriever |-> vs, shared |-> TRUE]

\* The retriever after a call that changed the VectorStore's object in
\* place (add_texts, delete): the one object is seen through both references.
InPlace(r, vs) == [r EXCEPT !.retriever = IF r.shared THEN vs ELSE @]

\* The retriever after self.vector_store = self._load_or_create_store():
\* load_local and _create_new_store both build a new FAISS object, and the
\* retriever keeps the one it was bound to, with the content it had.
Reassigned(r) == [r EXCEPT !.shared = FALSE]

\* The chain of get_response, run when the local search found documents:
\* the retriever searches the object it holds for the DefaultK nearest;
\* a vector with no entry raises, which get_response turns into its
\* error text.
chain(r, embedOk) ==
  IF ~embedOk \/ r.retriever.index > Entries(r.retriever)
  THEN [raised |-> TRUE, retrieved |-> 0]
  ELSE [raised |-> FALSE, retrieved |-> Min(DefaultK, r.retriever.index)]

InitChain ==
  /\ disk \in InitDisks
  /\ vector_store = _load_or_create_store(disk, TRUE)
  /\ backups = [t \in Timestamps |-> NoBackup]
  /\ cache = [k \in Keys |-> {}]
  /\ now = 0
  /\ last = [Blank EXCEPT !.op = "init", !.result = "created"]
  /\ mark = as_retriever(vector_store)
  /\ pc = [t \in Threads |-> Idle]

ChainAddDocuments ==
  \E n \in 0..MaxChunks, fault \in AddFaults :
    LET o == add_documents(n, fault)
    IN /\ vector_store.docs + n <= MaxDocs
       /\ Apply(o)
       /\ last' = [Blank EXCEPT !.op = "add_documents", !.n = n, !.result = o.result]
       /\ mark' = InPlace(mark, o.vector_store)

ChainDeleteDocument ==
  \E kind \in {"str", "list"}, names \in Names, fault \in DeleteFaults :
    LET o == delete_document(kind, names, fault)
    IN /\ Apply(o)
       /\ last' = [Blank EXCEPT !.op = "delete_document",
                                !.absent = IdAbsent(vector_store, names),
                                !.result = o.result]
       /\ mark' = InPlace(mark, o.vector_store)

ChainRestoreBackup ==
  \E ts \in Timestamps, readable \in BOOLEAN :
    LET o == restore_backup(ts, readable)
    IN /\ Apply(o)
       /\ last' = [Blank EXCEPT !.op = "restore_backup", !.ts = ts,
                                !.readable = readable, !.result = o.result]
       /\ mark' = IF o.result = "restored" THEN Reassigned(mark) ELSE mark

ChainGetResponse ==
  \E embedOk \in BOOLEAN :
    LET r == get_response(embedOk, "hits")
        c == chain(mark, embedOk)
    IN /\ last' = [Blank EXCEPT !.op = "get_response", !.docs = r.docs,
                     !.fallback = r.fallback,
                     !.n = IF r.fallback THEN 0 ELSE c.retrieved,
                     !.result = IF ~r.fallback /\ c.raised
                                THEN "error_text" ELSE r.result]
       /\ UNCHANGED <<vector_store, disk, backups, cache, now, mark, pc>>

ChainTick ==
  /\ now < MaxClock
  /\ now' = now + 1
  /\ last' = [Blank EXCEPT !.op = "tick"]
  /\ UNCHANGED <<vector_store, disk, backups, cache, mark, pc>>

NextChain ==
  \/ ChainAddDocuments
  \/ ChainDeleteDocument
  \/ ChainRestoreBackup
  \/ ChainGetResponse
  \/ ChainTick

SpecChain == InitChain /\ [][NextChain]_vars

\* C25: after any add_documents, delete_document and restore_backup calls,
\* the index the retriever of the chain reads is the one similarity_search
\* and get_stats read: the same object, with the same content.
C25_RetrieverReadsTheStore ==
  mark.shared /\ mark.retriever = vector_store

\* ------------------------------------------------ the documents directory
\* File names of uploads, as sequences of characters: a.pdf, A.PDF, a.txt,
\* a.md, a name with no extension, and the name txt.
Filenames ==
  {<<"a", ".", "p", "d", "f">>, <<"A", ".", "P", "D", "F">>,
   <<"a", ".", "t", "x", "t">>, <<"a", ".", "m", "d">>,
   <<"a">>, <<"t", "x", "t">>}

Contents == {"bytes 1", "bytes 2"}

PdfDir == <<"p", "d", "f">>
TxtDir == <<"t", "x", "t">>

\* The file_type arguments of list_documents; NoType is None.
NoType == << >>
FileTypes == {NoType, PdfDir, TxtDir, <<"m", "d">>}

\* get_document_path's None.
NoPath == [dir |-> << >>, name |-> << >>]

\* s.split('.')[-1]: what follows the last "." of s, all of s when it has none.
RECURSIVE LastPart(_)
LastPart(s) ==
  IF s = << >> \/ s[Len(s)] = "." THEN << >>
  ELSE Append(LastPart(SubSeq(s, 1, Len(s) - 1)), s[Len(s)])

\* filename.lower().split('.')[-1]
file_extension(filename) == LastPart(Lower(filename))

\* The documents tree is the set of its files, [dir, name, content], one
\* for a path at most; documents/pdf and documents/txt are its directories.
PathExists(tree, dir, name) == \E f \in tree : f.dir = dir /\ f.name = name

\* StorageManager.save_document: the tree it leaves and the path it returns.
save_document(tree, file_content, filename) ==
  LET target_dir == IF file_extension(filename) = PdfDir THEN PdfDir ELSE TxtDir
  IN [tree |-> {f \in tree : ~(f.dir = target_dir /\ f.name = filename)}
                 \cup {[dir |-> target_dir, name |-> filename, content |-> file_content]},
      path |-> [dir |-> target_dir, name |-> filename]]

\* StorageManager.list_documents: the paths glob("*") yields, of documents/pdf
\* and documents/txt, or of documents/<file_type>.
list_documents(tree, file_type) ==
  IF file_type # NoType
  THEN {[dir |-> f.dir, name |-> f.name] : f \in {g \in tree : g.dir = file_type}}
  ELSE {[dir |-> f.dir, name |-> f.name] : f \in {g \in tree : g.dir = PdfDir}}
         \cup {[dir |-> f.dir, name |-> f.name] : f \in {g \in tree : g.dir = TxtDir}}

\* StorageManager.delete_document: the tree it leaves and what it returns.
sm_delete_document(tree, filename) ==
  LET dir == file_extension(filename)
  IN IF PathExists(tree, dir, filename)
     THEN [tree |-> {f \in tree : ~(f.dir = dir /\ f.name = filename)}, result |-> TRUE]
     ELSE [tree |-> tree, result |-> FALSE]

\* StorageManager.get_document_path
get_document_path(tree, filename) ==
  LET dir == file_extension(filename)
  IN IF PathExists(tree, dir, filename)
     THEN [dir |-> dir, name |-> filename]
     ELSE NoPath

\* In this specification disk is the documents tree.
InitDocs ==
  /\ disk = {}
  /\ vector_store = [index |-> 1, dummy |-> 1, docs |-> 0]
  /\ backups = [t \in Timestamps |-> NoBackup]
  /\ cache = [k \in Keys |-> {}]
  /\ now = 0
  /\ mark = NoMark
  /\ pc = [t \in Threads |-> Idle]
  /\ last = [op |-> "init", filename |-> << >>, path |-> NoPath,
             listed |-> {}, result |-> FALSE]

SaveDocument ==
  \E filename \in Filenames, file_content \in Contents :
    LET r == save_document(disk, file_content, filename)
    IN /\ disk' = r.tree
       /\ last' = [op |-> "save_document", filename |-> filename, path |-> r.path,
                   listed |-> {}, result |-> TRUE]
       /\ UNCHANGED <<vector_store, backups, cache, now, mark, pc>>

ListDocuments ==
  \E file_type \in FileTypes :
    /\ last' = [op |-> "list_documents", filename |-> file_type, path |-> NoPath,
                listed |-> list_documents(disk, file_type), result |-> TRUE]
    /\ UNCHANGED <<vector_store, disk, backups, cache, now, mark, pc>>

SMDeleteDocument ==
  \E filename \in Filenames :
    LET r == sm_delete_document(disk, filename)
    IN /\ disk' = r.tree
       /\ last' = [op |-> "delete_document", filename |-> filename, path |-> NoPath,
                   listed |-> {}, result |-> r.result]
       /\ UNCHANGED <<vector_store, backups, cache, now, mark, pc>>

GetDocumentPath ==
  \E filename \in Filenames :
    LET r == get_document_path(disk, filename)
    IN /\ last' = [op |-> "get_document_path", filename |-> filename, path |-> r,
                   listed |-> {}, result |-> r # NoPath]
       /\ UNCHANGED <<vector_store, disk, backups, cache, now, mark, pc>>

NextDocs ==
  \/ SaveDocument
  \/ ListDocuments
  \/ SMDeleteDocument
  \/ GetDocumentPath

SpecDocs == InitDocs /\ [][NextDocs]_vars

\* C26: after save_document(content, filename), whatever the file name,
\* get_document_path(filename) and list_documents() both give the path of
\* the saved file, delete_document(filename) returns True, and after it
\* get_document_path(filename) gives None.
C26_DocumentRoundTrip ==
  last.op = "save_document"
    => LET d == sm_delete_document(disk, last.filename)
       IN /\ get_document_path(disk, last.filename) = last.path
          /\ last.path \in list_documents(disk, NoType)
          /\ d.result
          /\ get_document_path(d.tree, last.filename) = NoPath

====
